---- MODULE Spec2Model ----
\* Model of the DHCPv4 packet codec of go-dhcp (pkg/dhcp/dhcpv4/packet.go):
\* the options buffer of a Packet, Packet.SetOptions, Packet.GetOptions,
\* Packet.optionsLen, Packet.toBytes and parsePacket.
\*
\* Conventions.  A byte is a number in 0..255.  An Options array (always
\* dhcpOptionsLenMax bytes in the source) is held as the sequence of its bytes
\* up to the last non-zero one; all the bytes after them are zero.  At(b, i)
\* is the byte at the source's 0-based index i.
\* A value of the Go type interface{} is a record [t |-> <Go type>, v |-> <flat
\* sequence of numbers>]: a uint32/uint16/uint8 is <<n>>, a bool is <<0>> or
\* <<1>>, a []uint32 / []uint16 lists its elements, a []byte or string lists
\* its bytes and a slice of fixed arrays ([][4]byte, [][2]byte, [][2]uint32,
\* [][2][4]byte) lists the elements of its arrays in order.
EXTENDS Integers, Sequences, FiniteSets, TLC

\* ---------------------------------------------------------------- constants
dhcpFixedNonUDP == 236
dhcpOptionsLenMax == 1236
bootpOptionsLen == 64
dhcpMaxPacketSize == 1472
dhcpCookie == <<99, 130, 83, 99>>

MessageTypeDiscover == 1
HardwareTypeEthernet == 1
OptionEnd == 255
OptionPad == 0
OptionSubnetMask == 1
OptionTimeOffset == 2
OptionRouters == 3
OptionTimeServers == 4
OptionNameServers == 5
OptionDomainNameServers == 6
OptionLogServers == 7
OptionCookieServers == 8
OptionLPRServers == 9
OptionImpressServers == 10
OptionResourceLocationServers == 11
OptionHostname == 12
OptionBootFileSize == 13
OptionMeritDumpFile == 14
OptionDomainName == 15
OptionSwapServer == 16
OptionRootPath == 17
OptionExtensionsPath == 18
OptionVendorSpecificOptions == 43
OptionRequestedIPAddr == 50
OptionIPAddrLeaseTime == 51
OptionOverload == 52
OptionMessageType == 53
OptionServerID == 54
OptionParameterList == 55
OptionMessage == 56
OptionMaxMessageSize == 57
OptionRenewalTime == 58
OptionRebindingTime == 59
OptionClassID == 60
OptionClientID == 61
OptionUserClass == 77
OptionFQDN == 81
OptionRelayAgentOptions == 82
OptionAuthentication == 90
OptionSubnetSelection == 118
OptionDomainSearch == 119
OptionClasslessRoutes == 121
OptionClientLastTransactionTime == 91
OptionAssociatedIP == 92
OptionPCode == 100
OptionTCode == 101
OptionIPForwardingEnable == 19
OptionSourceRoutingEnable == 20
OptionPolicyFilters == 21
OptionMaxDatagramAssembly == 22
OptionDefaultIPTTL == 23
OptionMTUAgingTimeout == 24
OptionMTUPlateauTable == 25
OptionInterfaceMTU == 26
OptionAllSubnetsAreLocal == 27
OptionBroadcastAddr == 28
OptionMaskDiscoveryEnable == 29
OptionMaskSupplier == 30
OptionRouterDiscoveryEnable == 31
OptionRouterSolicitationAddr == 32
OptionStaticRoutes == 33
OptionTrailerEncapsulation == 34
OptionARPCacheTimeout == 35
OptionEthernetEncapsulation == 36
OptionTCPDefaultTTL == 37
OptionTCPKeepaliveInterval == 38
OptionTCPKeepaliveGarbage == 39
OptionNISDomain == 40
OptionNISServers == 41
OptionNTPServers == 42
OptionNetBIOSNameServers == 44
OptionNetBIOSDistServers == 45
OptionNetBIOSNodeType == 46
OptionNetBIOSScope == 47
OptionFontServers == 48
OptionXDisplayManager == 49
OptionNISPlusDomainName == 64
OptionNISPlusServers == 65
OptionTFTPServerName == 66
OptionBootFileName == 67
OptionHomeAgentAddrs == 68
OptionSMTPServers == 69
OptionPOPServers == 70
OptionNNTPServers == 71
OptionWWWServers == 72
OptionFingerServers == 73
OptionIRCServers == 74
OptionStreetTalkServers == 75
OptionSTDAServers == 76
OptionCAPWAPControllers == 138

\* ------------------------------------------------- the groups of SetOptions
Group1Codes ==
  {OptionRouters, OptionTimeServers, OptionNameServers,
   OptionDomainNameServers, OptionLogServers, OptionCookieServers,
   OptionLPRServers, OptionImpressServers, OptionResourceLocationServers}

Group2Codes ==
  {OptionNISServers, OptionNTPServers, OptionNetBIOSNameServers,
   OptionNetBIOSDistServers, OptionFontServers, OptionXDisplayManager,
   OptionNISPlusServers, OptionSMTPServers, OptionPOPServers,
   OptionNNTPServers, OptionWWWServers, OptionFingerServers,
   OptionIRCServers, OptionStreetTalkServers, OptionSTDAServers}

Group3Codes ==
  {OptionHomeAgentAddrs}

Group4Codes ==
  {OptionPolicyFilters, OptionStaticRoutes}

Group5Codes ==
  {OptionSubnetMask, OptionTimeOffset, OptionSwapServer,
   OptionMTUAgingTimeout, OptionBroadcastAddr, OptionRouterSolicitationAddr,
   OptionARPCacheTimeout, OptionTCPKeepaliveInterval, OptionRequestedIPAddr,
   OptionIPAddrLeaseTime, OptionServerID, OptionRenewalTime,
   OptionRebindingTime}

Group6Codes ==
  {OptionMTUPlateauTable}

Group7Codes ==
  {OptionBootFileSize, OptionMaxDatagramAssembly, OptionInterfaceMTU,
   OptionMaxMessageSize}

Group8Codes ==
  {OptionMessageType, OptionOverload, OptionDefaultIPTTL,
   OptionTCPDefaultTTL, OptionNetBIOSNodeType}

Group9Codes ==
  {OptionIPForwardingEnable, OptionSourceRoutingEnable,
   OptionAllSubnetsAreLocal, OptionMaskDiscoveryEnable, OptionMaskSupplier,
   OptionRouterDiscoveryEnable, OptionTrailerEncapsulation,
   OptionEthernetEncapsulation, OptionTCPKeepaliveGarbage}

Group10Codes ==
  {OptionParameterList}

Group11Codes ==
  {OptionMeritDumpFile, OptionDomainName, OptionRootPath,
   OptionExtensionsPath, OptionMessage, OptionNISDomain,
   OptionNetBIOSScope, OptionNISPlusDomainName, OptionTFTPServerName,
   OptionBootFileName, OptionHostname}

\* --------------------------------------------------------- byte arithmetic
\* uint8(n): the conversion of an int to a byte keeps the low 8 bits.
Uint8(n) == n % 256

\* binary.BigEndian.PutUint32 / PutUint16 of one number.
PutUint32(n) ==
  <<(n \div 16777216) % 256, (n \div 65536) % 256, (n \div 256) % 256, n % 256>>

PutUint16(n) ==
  <<(n \div 256) % 256, n % 256>>

\* binary.BigEndian.Uint16 of the two bytes at position i (1-based) of s.
Uint16At(s, i) == s[i] * 256 + s[i + 1]

\* The bytes a loop of PutUint32 (PutUint16) calls writes for a list.
PutUint32List(l) ==
  [i \in 1..(4 * Len(l)) |-> PutUint32(l[((i - 1) \div 4) + 1])[((i - 1) % 4) + 1]]

PutUint16List(l) ==
  [i \in 1..(2 * Len(l)) |-> PutUint16(l[((i - 1) \div 2) + 1])[((i - 1) % 2) + 1]]

Take(s, n) == SubSeq(s, 1, n)

\* The byte at index i (0-based, below dhcpOptionsLenMax) of the array b.
At(b, i) == IF i < Len(b) THEN b[i + 1] ELSE 0

\* The array with the bytes s followed by zeros: s without its trailing zeros.
ArrayOf(s) ==
  CHOOSE a \in
    { IF \A i \in 1..Len(v) : v[i] = 0
      THEN <<>>
      ELSE Take(v, CHOOSE i \in 1..Len(v) :
                     v[i] # 0 /\ \A j \in (i + 1)..Len(v) : v[j] = 0)
      : v \in {s} } : TRUE

MinOf(a, b) == IF a < b THEN a ELSE b

\* --------------------------------------- what one case of SetOptions writes
\* The outcome of the switch for one (code, value) entry, after the code byte:
\*   res     "ok", "continue" (the entry is skipped), "InvalidType" or
\*           "InvalidValue" (the errors.New returned)
\*   hasLen  whether the length byte was written before res was decided
\*   lenByte the length byte
\*   data    the value bytes written before res was decided
\*   chunk   the width of each slice the data is written through
\*           (p.Options[idx:idx+chunk]); 1 for an indexed store
Written(lenByte, data, chunk) ==
  [res |-> "ok", hasLen |-> TRUE, lenByte |-> lenByte, data |-> data, chunk |-> chunk]

Returned(res) ==
  [res |-> res, hasLen |-> FALSE, lenByte |-> 0, data |-> <<>>, chunk |-> 1]

ReturnedAfter(res, lenByte, data, chunk) ==
  [res |-> res, hasLen |-> TRUE, lenByte |-> lenByte, data |-> data, chunk |-> chunk]

\* case OptionRouters, ...: uint32 / [1-4]uint32 / [(1+n*4)-32]byte / [1-4][4]byte
EncodeGroup1(val) ==
  CASE val.t = "uint32" -> Written(4, PutUint32(val.v[1]), 4)
    [] val.t = "[]uint32" ->
         IF Len(val.v) = 0 \/ Len(val.v) > 4
         THEN Returned("InvalidValue")
         ELSE Written(Uint8(Len(val.v) * 4), PutUint32List(val.v), 4)
    [] val.t = "[][4]byte" ->
         IF Len(val.v) \div 4 = 0 \/ Len(val.v) \div 4 > 4
         THEN Returned("InvalidValue")
         ELSE Written(Uint8((Len(val.v) \div 4) * 4), val.v, 4)
    [] val.t = "[]byte" ->
         IF Len(val.v) = 0 \/ Len(val.v) % 4 # 0 \/ Len(val.v) > 32
         THEN Returned("InvalidValue")
         ELSE Written(Uint8(Len(val.v)), val.v, Len(val.v))
    [] OTHER -> Returned("InvalidType")

\* case OptionNISServers, ...: the same without the maximum of 4 addresses
EncodeGroup2(val) ==
  CASE val.t = "uint32" -> Written(4, PutUint32(val.v[1]), 4)
    [] val.t = "[]uint32" ->
         IF Len(val.v) = 0
         THEN Returned("InvalidValue")
         ELSE Written(Uint8(Len(val.v) * 4), PutUint32List(val.v), 4)
    [] val.t = "[][4]byte" ->
         IF Len(val.v) \div 4 = 0
         THEN Returned("InvalidValue")
         ELSE Written(Uint8((Len(val.v) \div 4) * 4), val.v, 4)
    [] val.t = "[]byte" ->
         IF Len(val.v) = 0 \/ Len(val.v) % 4 # 0
         THEN Returned("InvalidValue")
         ELSE Written(Uint8(Len(val.v)), val.v, Len(val.v))
    [] OTHER -> Returned("InvalidType")

\* case OptionHomeAgentAddrs: the same without the minimum of 1 address; an
\* empty value takes the loop's continue
EncodeGroup3(val) ==
  CASE val.t = "uint32" ->
         IF val.v[1] = 0
         THEN Returned("continue")
         ELSE Written(4, PutUint32(val.v[1]), 4)
    [] val.t = "[]uint32" ->
         IF Len(val.v) = 0
         THEN Returned("continue")
         ELSE Written(Uint8(Len(val.v) * 4), PutUint32List(val.v), 4)
    [] val.t = "[][4]byte" ->
         IF Len(val.v) \div 4 = 0
         THEN Returned("continue")
         ELSE Written(Uint8((Len(val.v) \div 4) * 4), val.v, 4)
    [] val.t = "[]byte" ->
         IF Len(val.v) = 0
         THEN Returned("continue")
         ELSE IF Len(val.v) % 4 # 0
         THEN Returned("InvalidValue")
         ELSE Written(Uint8(Len(val.v)), val.v, Len(val.v))
    [] OTHER -> Returned("InvalidType")

\* case OptionPolicyFilters, OptionStaticRoutes:
\* [2]uint32 / [1-4][2]uint32 / [(n*8)-64]byte / [1-4][2][4]byte
EncodeGroup4(val) ==
  CASE val.t = "[2]uint32" -> Written(8, PutUint32List(val.v), 4)
    [] val.t = "[][2]uint32" ->
         IF Len(val.v) \div 2 = 0 \/ Len(val.v) \div 2 > 4
         THEN Returned("InvalidValue")
         ELSE Written(Uint8((Len(val.v) \div 2) * 8), PutUint32List(val.v), 4)
    [] val.t = "[][2][4]byte" ->
         IF Len(val.v) \div 8 = 0 \/ Len(val.v) \div 8 > 4
         THEN Returned("InvalidValue")
         ELSE Written(Uint8((Len(val.v) \div 8) * 2 * 4), val.v, 4)
    [] val.t = "[]byte" ->
         IF Len(val.v) = 0 \/ Len(val.v) % 8 # 0 \/ Len(val.v) > 64
         THEN Returned("InvalidValue")
         ELSE Written(Uint8(Len(val.v)), val.v, Len(val.v))
    [] OTHER -> Returned("InvalidType")

\* case OptionSubnetMask, ...: uint32 / [4]byte; the length byte is written
\* before the type switch
EncodeGroup5(val) ==
  CASE val.t = "uint32" -> Written(4, PutUint32(val.v[1]), 4)
    [] val.t = "[4]byte" -> Written(4, val.v, 4)
    [] OTHER -> ReturnedAfter("InvalidType", 4, <<>>, 4)

\* The elements a range loop handles before it returns on the first one whose
\* value is below 68 (all of them when there is none).
BeforeFirstBelow68(l) ==
  IF \A i \in 1..Len(l) : l[i] >= 68
  THEN Len(l)
  ELSE (CHOOSE i \in 1..Len(l) : l[i] < 68 /\ \A j \in 1..(i - 1) : l[j] >= 68) - 1

\* The 16-bit numbers of a flattened [][2]byte.
Uint16sOf(s) == [i \in 1..(Len(s) \div 2) |-> Uint16At(s, 2 * i - 1)]

\* EncodeGroup6 with the check of the single uint16 left out.
EncodeGroup6Unchecked(val) ==
  CASE val.t = "uint16" -> Written(2, PutUint16(val.v[1]), 2)
    [] val.t = "[]uint16" ->
         IF Len(val.v) = 0
         THEN Returned("InvalidValue")
         ELSE LET k == BeforeFirstBelow68(val.v)
              IN  IF k < Len(val.v)
                  THEN ReturnedAfter("InvalidValue", Uint8(Len(val.v) * 2),
                                     PutUint16List(Take(val.v, k)), 2)
                  ELSE Written(Uint8(Len(val.v) * 2), PutUint16List(val.v), 2)
    [] val.t = "[][2]byte" ->
         IF Len(val.v) \div 2 = 0
         THEN Returned("InvalidValue")
         ELSE LET k == BeforeFirstBelow68(Uint16sOf(val.v))
              IN  IF k < Len(val.v) \div 2
                  THEN ReturnedAfter("InvalidValue", Uint8((Len(val.v) \div 2) * 2),
                                     Take(val.v, 2 * k), 2)
                  ELSE Written(Uint8((Len(val.v) \div 2) * 2), val.v, 2)
    [] val.t = "[2]byte" ->
         IF Uint16At(val.v, 1) < 68
         THEN Returned("InvalidValue")
         ELSE Written(2, val.v, 2)
    [] OTHER -> Returned("InvalidType")

\* case OptionMTUPlateauTable: uint16 / [1+]uint16 / [2]byte / [1+][2]byte;
\* a list writes its length byte and the elements before the offending one
EncodeGroup6(val) ==
  CASE val.t = "uint16" ->
         IF val.v[1] < 68
         THEN Returned("InvalidValue")
         ELSE Written(2, PutUint16(val.v[1]), 2)
    [] val.t = "[]uint16" ->
         IF Len(val.v) = 0
         THEN Returned("InvalidValue")
         ELSE LET k == BeforeFirstBelow68(val.v)
              IN  IF k < Len(val.v)
                  THEN ReturnedAfter("InvalidValue", Uint8(Len(val.v) * 2),
                                     PutUint16List(Take(val.v, k)), 2)
                  ELSE Written(Uint8(Len(val.v) * 2), PutUint16List(val.v), 2)
    [] val.t = "[][2]byte" ->
         IF Len(val.v) \div 2 = 0
         THEN Returned("InvalidValue")
         ELSE LET k == BeforeFirstBelow68(Uint16sOf(val.v))
              IN  IF k < Len(val.v) \div 2
                  THEN ReturnedAfter("InvalidValue", Uint8((Len(val.v) \div 2) * 2),
                                     Take(val.v, 2 * k), 2)
                  ELSE Written(Uint8((Len(val.v) \div 2) * 2), val.v, 2)
    [] val.t = "[2]byte" ->
         IF Uint16At(val.v, 1) < 68
         THEN Returned("InvalidValue")
         ELSE Written(2, val.v, 2)
    [] OTHER -> Returned("InvalidType")

\* case OptionBootFileSize, ...: uint16 / [2]byte
EncodeGroup7(val) ==
  CASE val.t = "uint16" -> Written(2, PutUint16(val.v[1]), 2)
    [] val.t = "[2]byte" -> Written(2, val.v, 2)
    [] OTHER -> ReturnedAfter("InvalidType", 2, <<>>, 2)

\* case OptionMessageType, OptionOverload, ...: uint8
EncodeGroup8(code, val) ==
  CASE val.t = "uint8" ->
         IF code = OptionOverload /\ (val.v[1] = 0 \/ val.v[1] > 3)
         THEN ReturnedAfter("InvalidValue", 1, <<>>, 1)
         ELSE Written(1, <<val.v[1]>>, 1)
    [] OTHER -> ReturnedAfter("InvalidType", 1, <<>>, 1)

\* case OptionIPForwardingEnable, ...: (uint8 0/1) / bool
EncodeGroup9(val) ==
  CASE val.t = "uint8" ->
         IF val.v[1] > 1
         THEN ReturnedAfter("InvalidValue", 1, <<>>, 1)
         ELSE Written(1, <<val.v[1]>>, 1)
    [] val.t = "bool" -> Written(1, <<IF val.v[1] = 1 THEN 1 ELSE 0>>, 1)
    [] OTHER -> ReturnedAfter("InvalidType", 1, <<>>, 1)

\* case OptionParameterList: []byte; the length byte is written before the
\* (ClientID) length check
EncodeGroup10(code, val) ==
  CASE val.t = "[]byte" ->
         IF code = OptionClientID /\ Len(val.v) < 2
         THEN ReturnedAfter("InvalidValue", Uint8(Len(val.v)), <<>>, 1)
         ELSE Written(Uint8(Len(val.v)), val.v, Len(val.v))
    [] OTHER -> Returned("InvalidType")

\* case OptionMeritDumpFile, ...: string / []byte
EncodeGroup11(val) ==
  CASE val.t = "string" -> Written(Uint8(Len(val.v)), val.v, Len(val.v))
    [] val.t = "[]byte" -> Written(Uint8(Len(val.v)), val.v, Len(val.v))
    [] OTHER -> Returned("InvalidType")

\* case OptionClassID, OptionClientID, OptionVendorSpecificOptions and
\* default: []byte
EncodeGroup12(code, val) ==
  CASE val.t = "[]byte" ->
         IF Len(val.v) = 0
         THEN Returned("InvalidValue")
         ELSE IF code = OptionClientID /\ Len(val.v) < 2
         THEN Returned("InvalidValue")
         ELSE Written(Uint8(Len(val.v)), val.v, Len(val.v))
    [] OTHER -> Returned("InvalidType")

\* switch code { ... }
EncodeValue(code, val) ==
  CASE code \in Group1Codes -> EncodeGroup1(val)
    [] code \in Group2Codes -> EncodeGroup2(val)
    [] code \in Group3Codes -> EncodeGroup3(val)
    [] code \in Group4Codes -> EncodeGroup4(val)
    [] code \in Group5Codes -> EncodeGroup5(val)
    [] code \in Group6Codes -> EncodeGroup6(val)
    [] code \in Group7Codes -> EncodeGroup7(val)
    [] code \in Group8Codes -> EncodeGroup8(code, val)
    [] code \in Group9Codes -> EncodeGroup9(val)
    [] code \in Group10Codes -> EncodeGroup10(code, val)
    [] code \in Group11Codes -> EncodeGroup11(val)
    [] OTHER -> EncodeGroup12(code, val)

\* ------------------------------------------------------ Packet.SetOptions
\* The writes of SetOptions go to consecutive indices from 4 on, so the
\* buffer during the call is the cookie, the bytes written so far (out) and
\* zeros; idx is 4 + Len(out).  An index or a slice bound past the array is a
\* run-time panic that leaves the bytes written before it.

\* One iteration of "for code, _val := range opts".
WriteEntry(out, code, val) ==
  LET idx == 4 + Len(out)
  IN  IF idx >= dhcpOptionsLenMax
      THEN [out |-> out, res |-> "panic"]
      ELSE
        CHOOSE w \in
          { IF e.hasLen /\ idx + 1 >= dhcpOptionsLenMax
            THEN [out |-> Append(out, code), res |-> "panic"]
            ELSE
              LET o2  == IF e.hasLen THEN <<code, e.lenByte>> ELSE <<code>>
                  pos == idx + Len(o2)
                  n   == IF Len(e.data) = 0 THEN 0 ELSE Len(e.data) \div e.chunk
                  fit == IF n = 0 THEN 0
                         ELSE MinOf(n, (dhcpOptionsLenMax - pos) \div e.chunk)
              IN  [out |-> out \o o2 \o Take(e.data, fit * e.chunk),
                   res |-> IF fit < n THEN "panic" ELSE e.res]
            : e \in {EncodeValue(code, val)} } : TRUE

\* p.Options[idx] = OptionEnd; return nil
WriteEnd(out) ==
  IF 4 + Len(out) >= dhcpOptionsLenMax
  THEN [out |-> out, res |-> "panic"]
  ELSE [out |-> Append(out, OptionEnd), res |-> "nil"]

\* The range loop over the entries i..n of opts in the iteration order
\* `order` (a sequence listing the codes of opts once each): the bytes written
\* in all and "ok", or the outcome of the entry that ended the call.
RECURSIVE EncodeUpTo(_, _, _, _, _)
EncodeUpTo(out, opts, order, i, n) ==
  IF i > n
  THEN [out |-> out, res |-> "ok"]
  ELSE CHOOSE r \in
         { IF w.res \in {"ok", "continue"}
           THEN EncodeUpTo(w.out, opts, order, i + 1, n)
           ELSE w
           : w \in {WriteEntry(out, order[i], opts[order[i]])} } : TRUE

\* ClearOptions with the clearing loop left out.
ClearOptionsSkipped(b) == b

\* for i := range p.Options { p.Options[i] = 0 }
ClearOptions(b) == <<>>

\* The array b after the bytes s were stored at its indices 0..Len(s)-1.
Overlay(b, s) ==
  ArrayOf(IF Len(b) > Len(s) THEN s \o SubSeq(b, Len(s) + 1, Len(b)) ELSE s)

\* SetOptions(opts) on a packet whose options array is b, with the map
\* iterated in `order`: the options array it leaves and what it returns
\* ("nil", "InvalidType", "InvalidValue") or "panic".
SetOptions(b, opts, order) ==
  CHOOSE r \in
    { [Options |-> Overlay(ClearOptions(b), dhcpCookie \o e.out), err |-> e.res]
      : e \in { IF w.res = "ok" THEN WriteEnd(w.out) ELSE w
                 : w \in {EncodeUpTo(<<>>, opts, order, 1, Len(order))} } } : TRUE

\* ------------------------------------------------------- Packet.optionsLen
\* The iterations that take a "continue": a cookie byte at its own index
\* below 4, or an OptionPad.
Skipped(b, idx) ==
  \/ idx < Len(dhcpCookie) /\ At(b, idx) = dhcpCookie[idx + 1]
  \/ At(b, idx) = OptionPad

\* The index the loop reaches after the run of "continue"s from idx on: the
\* first index that is not skipped, or cap-1 where the loop condition fails.
\* (Every index from Len(b) on holds a zero and is skipped.)
AfterSkipped(b, idx) ==
  LET last == MinOf(Len(b) - 1, dhcpOptionsLenMax - 2)
  IN  IF \A k \in idx..last : Skipped(b, k)
      THEN dhcpOptionsLenMax - 1
      ELSE CHOOSE j \in idx..last :
             ~Skipped(b, j) /\ \A k \in idx..(j - 1) : Skipped(b, k)

\* for idx := ...; idx < cap(p.Options)-1; idx++ { ... }, entered at idx with
\* the current value of end.
RECURSIVE optionsLenFrom(_, _, _)
optionsLenFrom(b, idx, end) ==
  IF idx >= dhcpOptionsLenMax - 1
  THEN end
  ELSE CHOOSE r \in
         { IF j >= dhcpOptionsLenMax - 1 THEN end
           ELSE IF At(b, j) = OptionEnd THEN j + 1
           ELSE CHOOSE n \in { optionsLenFrom(b, k + 1, k)
                                : k \in {j + 1 + At(b, j + 1)} } : TRUE
           : j \in {AfterSkipped(b, idx)} } : TRUE

optionsLen(b) == optionsLenFrom(b, 0, 0)

\* ------------------------------------------------------ Packet.GetOptions
\* A value of the returned mapping is the slice p.Options[off : off+len]: a
\* view of the packet's array, held here as [off, len].
Put(m, code, view) ==
  [c \in (DOMAIN m) \cup {code} |-> IF c = code THEN view ELSE m[c]]

NoOptions == [c \in {} |-> [off |-> 0, len |-> 0]]

\* The loop "for idx := len(dhcpCookie); idx < p.optionsLen(); idx++" entered
\* at idx with the mapping m; end is p.optionsLen().
RECURSIVE GetOptionsFrom(_, _, _, _)
GetOptionsFrom(b, idx, end, m) ==
  IF idx >= end THEN [res |-> "ok", opts |-> m]
  ELSE IF idx >= dhcpOptionsLenMax THEN [res |-> "panic", opts |-> m]
  ELSE IF At(b, idx) = OptionEnd THEN [res |-> "ok", opts |-> m]
  ELSE IF idx + 1 >= dhcpOptionsLenMax THEN [res |-> "panic", opts |-> m]
  ELSE CHOOSE r \in
         { IF idx + 2 + optlen > dhcpOptionsLenMax
           THEN [res |-> "panic", opts |-> m]
           ELSE CHOOSE n \in
                  { GetOptionsFrom(b, next, end, put)
                    : next \in {idx + 2 + optlen},
                      put \in {Put(m, At(b, idx), [off |-> idx + 2, len |-> optlen])} }
                  : TRUE
           : optlen \in {At(b, idx + 1)} } : TRUE

GetOptions(b) ==
  IF \E i \in 0..(Len(dhcpCookie) - 1) : At(b, i) # dhcpCookie[i + 1]
  THEN [res |-> "ok", opts |-> NoOptions]
  ELSE CHOOSE r \in { GetOptionsFrom(b, Len(dhcpCookie), end, NoOptions)
                       : end \in {optionsLen(b)} } : TRUE

\* The bytes a view shows in the array b.
ViewBytes(b, view) == [i \in 1..view.len |-> At(b, view.off + i - 1)]

\* A mapping of views read through b, as the []byte values SetOptions sees.
AsOptions(b, m) == [c \in DOMAIN m |-> [t |-> "[]byte", v |-> ViewBytes(b, m[c])]]

\* --------------------------------------------------------- Packet.toBytes
\* binary.Write puts the 236 header bytes and the 1236 option bytes into a
\* bytes.Buffer; the result is that buffer's slice cut at the computed length.
\* A length past the 1472 written bytes is still a valid slice while it is
\* within the capacity bufcap the buffer happened to allocate, and shows the
\* zero bytes there; past the capacity the slice expression panics.
toBytes(hdr, b, bufcap) ==
  CHOOSE r \in
    { IF l > bufcap
      THEN [res |-> "panic", bytes |-> <<>>]
      ELSE [res |-> "ok",
            bytes |-> [i \in 1..l |->
                         IF i <= dhcpFixedNonUDP THEN hdr[i]
                         ELSE IF i <= dhcpMaxPacketSize THEN At(b, i - dhcpFixedNonUDP - 1)
                         ELSE 0]]
      : l \in { IF n < bootpOptionsLen
                 THEN dhcpFixedNonUDP + bootpOptionsLen
                 ELSE dhcpFixedNonUDP + n
                 : n \in {optionsLen(b)} } } : TRUE

\* The capacities bytes.Buffer gives a first write of dhcpMaxPacketSize
\* bytes: exactly that (makeSlice) or the allocator's next size class.
BufferCaps == {dhcpMaxPacketSize, 1536}

\* ------------------------------------------------------------ parsePacket
\* binary.Read fills the whole Packet struct from data and fails when data
\* has fewer bytes than the struct.
parsePacket(data) ==
  IF Len(data) < dhcpMaxPacketSize
  THEN [err |-> "binary.Read", hdr |-> <<>>, Options |-> <<>>]
  ELSE [err |-> "nil",
        hdr |-> SubSeq(data, 1, dhcpFixedNonUDP),
        Options |-> ArrayOf(SubSeq(data, dhcpFixedNonUDP + 1, dhcpMaxPacketSize))]

\* ------------------------------------------------------------------ bounds
\* The largest number of entries of an options mapping built from ComboPool.
MaxOpts == 2
\* The largest number of calls in one run that fill the options array of p.
MaxWrites == 2
\* The largest number of entries of a decoded mapping that is encoded again.
MaxReOpts == 3

\* ------------------------------------------------------------------ inputs
Val(t, v) == [t |-> t, v |-> v]

Entry(code, val) == [code |-> code, val |-> val]

Rep(n, x) == [i \in 1..n |-> x]

\* Entries that are tried one at a time: every group, every representation,
\* values on both sides of every check, and values longer than a length byte
\* or than the options array.
Pool ==
  { Entry(OptionRouters, Val("uint32", <<16843009>>)),
    Entry(OptionRouters, Val("[]uint32", <<>>)),
    Entry(OptionRouters, Val("[]uint32", <<16843009>>)),
    Entry(OptionRouters, Val("[]uint32", <<16843009, 33686018, 50529027, 67372036>>)),
    Entry(OptionRouters, Val("[]uint32", <<16843009, 33686018, 50529027, 67372036, 84215045>>)),
    Entry(OptionDomainNameServers, Val("[][4]byte", Rep(16, 8))),
    Entry(OptionDomainNameServers, Val("[][4]byte", Rep(20, 8))),
    Entry(OptionTimeServers, Val("[]byte", Rep(16, 9))),
    Entry(OptionTimeServers, Val("[]byte", Rep(20, 9))),
    Entry(OptionTimeServers, Val("[]byte", Rep(32, 9))),
    Entry(OptionTimeServers, Val("[]byte", Rep(36, 9))),
    Entry(OptionTimeServers, Val("[]byte", Rep(6, 9))),
    Entry(OptionTimeServers, Val("[]byte", <<>>)),
    Entry(OptionLogServers, Val("bool", <<1>>)),
    Entry(OptionNTPServers, Val("uint32", <<16843009>>)),
    Entry(OptionNTPServers, Val("[]uint32", <<>>)),
    Entry(OptionNTPServers, Val("[]uint32", Rep(63, 16843009))),
    Entry(OptionNTPServers, Val("[]uint32", Rep(64, 1077952576))),
    Entry(OptionNTPServers, Val("[]uint32", Rep(310, 16843009))),
    Entry(OptionSMTPServers, Val("[][4]byte", Rep(260, 65))),
    Entry(OptionSMTPServers, Val("[]byte", Rep(8, 7))),
    Entry(OptionSMTPServers, Val("[]byte", Rep(7, 7))),
    Entry(OptionSMTPServers, Val("string", <<104>>)),
    Entry(OptionHomeAgentAddrs, Val("uint32", <<0>>)),
    Entry(OptionHomeAgentAddrs, Val("uint32", <<16843009>>)),
    Entry(OptionHomeAgentAddrs, Val("[]uint32", <<>>)),
    Entry(OptionHomeAgentAddrs, Val("[]uint32", <<16843009, 33686018>>)),
    Entry(OptionHomeAgentAddrs, Val("[][4]byte", <<>>)),
    Entry(OptionHomeAgentAddrs, Val("[]byte", <<>>)),
    Entry(OptionHomeAgentAddrs, Val("[]byte", Rep(4, 10))),
    Entry(OptionHomeAgentAddrs, Val("[]byte", Rep(6, 10))),
    Entry(OptionHomeAgentAddrs, Val("uint8", <<0>>)),
    Entry(OptionStaticRoutes, Val("[2]uint32", <<16843009, 33686018>>)),
    Entry(OptionStaticRoutes, Val("[][2]uint32", Rep(8, 16843009))),
    Entry(OptionStaticRoutes, Val("[][2]uint32", Rep(10, 16843009))),
    Entry(OptionPolicyFilters, Val("[][2][4]byte", Rep(32, 5))),
    Entry(OptionPolicyFilters, Val("[][2][4]byte", Rep(40, 5))),
    Entry(OptionPolicyFilters, Val("[]byte", Rep(64, 5))),
    Entry(OptionPolicyFilters, Val("[]byte", Rep(72, 5))),
    Entry(OptionPolicyFilters, Val("uint32", <<5>>)),
    Entry(OptionSubnetMask, Val("uint32", <<16777215>>)),
    Entry(OptionSubnetMask, Val("[4]byte", <<255, 255, 255, 0>>)),
    Entry(OptionSubnetMask, Val("[]byte", <<255, 255, 255, 0>>)),
    Entry(OptionMTUPlateauTable, Val("uint16", <<67>>)),
    Entry(OptionMTUPlateauTable, Val("uint16", <<68>>)),
    Entry(OptionMTUPlateauTable, Val("[]uint16", <<>>)),
    Entry(OptionMTUPlateauTable, Val("[]uint16", <<576, 1500>>)),
    Entry(OptionMTUPlateauTable, Val("[]uint16", <<576, 67, 1500>>)),
    Entry(OptionMTUPlateauTable, Val("[]uint16", Rep(130, 576))),
    Entry(OptionMTUPlateauTable, Val("[][2]byte", <<2, 64, 5, 220>>)),
    Entry(OptionMTUPlateauTable, Val("[][2]byte", <<2, 64, 0, 67>>)),
    Entry(OptionMTUPlateauTable, Val("[2]byte", <<0, 67>>)),
    Entry(OptionMTUPlateauTable, Val("[2]byte", <<0, 68>>)),
    Entry(OptionMTUPlateauTable, Val("uint32", <<1500>>)),
    Entry(OptionInterfaceMTU, Val("uint16", <<1500>>)),
    Entry(OptionInterfaceMTU, Val("[2]byte", <<5, 220>>)),
    Entry(OptionInterfaceMTU, Val("uint32", <<1500>>)),
    Entry(OptionMessageType, Val("uint8", <<MessageTypeDiscover>>)),
    Entry(OptionMessageType, Val("bool", <<1>>)),
    Entry(OptionOverload, Val("uint8", <<0>>)),
    Entry(OptionOverload, Val("uint8", <<1>>)),
    Entry(OptionOverload, Val("uint8", <<3>>)),
    Entry(OptionOverload, Val("uint8", <<4>>)),
    Entry(OptionIPForwardingEnable, Val("uint8", <<0>>)),
    Entry(OptionIPForwardingEnable, Val("uint8", <<1>>)),
    Entry(OptionIPForwardingEnable, Val("uint8", <<2>>)),
    Entry(OptionIPForwardingEnable, Val("bool", <<1>>)),
    Entry(OptionIPForwardingEnable, Val("bool", <<0>>)),
    Entry(OptionIPForwardingEnable, Val("uint16", <<1>>)),
    Entry(OptionParameterList, Val("[]byte", <<1, 3, 6>>)),
    Entry(OptionParameterList, Val("[]byte", <<1>>)),
    Entry(OptionParameterList, Val("[]byte", <<>>)),
    Entry(OptionParameterList, Val("string", <<1, 3, 6>>)),
    Entry(OptionHostname, Val("string", <<104, 111, 115, 116>>)),
    Entry(OptionHostname, Val("string", <<>>)),
    Entry(OptionHostname, Val("string", Rep(300, 104))),
    Entry(OptionHostname, Val("[]byte", <<104, 111, 115, 116>>)),
    Entry(OptionHostname, Val("uint8", <<104>>)),
    Entry(OptionClientID, Val("[]byte", <<HardwareTypeEthernet, 2, 0, 0, 0, 0, 1>>)),
    Entry(OptionClientID, Val("[]byte", <<HardwareTypeEthernet, 2>>)),
    Entry(OptionClientID, Val("[]byte", <<HardwareTypeEthernet>>)),
    Entry(OptionClientID, Val("[]byte", <<>>)),
    Entry(OptionClassID, Val("[]byte", <<77, 83>>)),
    Entry(OptionClassID, Val("[]byte", <<>>)),
    Entry(OptionClassID, Val("string", <<77, 83>>)),
    Entry(OptionVendorSpecificOptions, Val("[]byte", Rep(255, 1))),
    Entry(OptionVendorSpecificOptions, Val("[]byte", Rep(256, 65))),
    Entry(254, Val("[]byte", <<170, 187>>)) }

\* Entries that are also put together in one mapping.
ComboPool ==
  { Entry(OptionMessageType, Val("uint8", <<MessageTypeDiscover>>)),
    Entry(OptionParameterList, Val("[]byte", <<1, 3, 6>>)),
    Entry(OptionClientID, Val("[]byte", <<HardwareTypeEthernet, 2, 0, 0, 0, 0, 1>>)),
    Entry(OptionHomeAgentAddrs, Val("uint32", <<0>>)),
    Entry(OptionRouters, Val("[]uint32", <<16843009, 33686018, 50529027, 67372036, 84215045>>)),
    Entry(OptionClassID, Val("[]byte", Rep(70, 65))),
    Entry(OptionMTUPlateauTable, Val("uint16", <<67>>)),
    Entry(254, Val("[]byte", <<170, 187>>)) }

\* The mapping with the entries es (of distinct codes).
MapOf(es) ==
  [c \in {e.code : e \in es} |-> (CHOOSE e \in es : e.code = c).val]

\* A mapping whose records end at index 1234, so that OptionEnd is the last
\* byte of the array.
FullMap ==
  MapOf({ Entry(OptionVendorSpecificOptions, Val("[]byte", Rep(255, 1))),
          Entry(OptionClassID, Val("[]byte", Rep(255, 2))),
          Entry(OptionUserClass, Val("[]byte", Rep(255, 3))),
          Entry(OptionFQDN, Val("[]byte", Rep(255, 4))),
          Entry(OptionRelayAgentOptions, Val("[]byte", Rep(201, 5))) })

OptsInputs ==
  {MapOf({})} \cup {MapOf({e}) : e \in Pool}
   \cup {MapOf(es) : es \in {s \in SUBSET ComboPool :
                               /\ Cardinality(s) \in 2..MaxOpts
                               /\ Cardinality({e.code : e \in s}) = Cardinality(s)}}
   \cup {FullMap}

\* The mappings a packet that was already filled is encoded with again.
ReuseOpts ==
  { MapOf({}),
    MapOf({Entry(OptionMessageType, Val("uint8", <<MessageTypeDiscover>>))}),
    MapOf({Entry(OptionRouters, Val("bool", <<1>>))}) }

\* The orders in which a range over a map with the keys s can run.
Orders(s) ==
  {f \in [1..Cardinality(s) -> s] : \A i, j \in 1..Cardinality(s) : i # j => f[i] # f[j]}

\* A datagram buffer of n bytes: the header bytes h, zeros up to the fixed
\* header length, the option bytes o, zeros to the end.
Datagram(n, h, o) ==
  [i \in 1..n |->
     IF i <= Len(h) THEN h[i]
     ELSE IF i <= dhcpFixedNonUDP THEN 0
     ELSE IF i - dhcpFixedNonUDP <= Len(o) THEN o[i - dhcpFixedNonUDP]
     ELSE 0]

ReplyHeader == <<2, 1, 6, 0, 18, 52, 86, 120, 0, 0, 128, 0>>

\* The option bytes of the datagrams that are parsed.
OptionBytesInputs ==
  { <<>>,
    <<1, 2, 3, 4, 53, 1, 2, 255>>,
    <<99, 130, 83, 98, 53, 1, 2, 255>>,
    dhcpCookie \o <<255>>,
    dhcpCookie \o <<53, 1, 2, 255>>,
    dhcpCookie \o <<0, 53, 1, 2, 255>>,
    dhcpCookie \o <<53, 1, 2, 0, 0, 54, 4, 10, 0, 0, 1, 255>>,
    dhcpCookie \o <<53, 1, 2, 54, 4, 10, 0, 0, 1, 255>>,
    dhcpCookie \o <<53, 1, 2, 54, 4, 10, 0, 0, 1, 255, 51, 4, 0, 0, 14, 16, 255>>,
    dhcpCookie \o <<53, 1, 1, 55, 3, 1, 3, 6, 61, 7, 1, 2, 0, 0, 0, 0, 1, 255>>,
    dhcpCookie \o <<53, 1, 2, 61, 7, 1, 2>>,
    dhcpCookie \o <<53, 1, 2, 53, 1, 5, 255>>,
    dhcpCookie \o <<43, 255>> \o Rep(255, 0) \o <<43, 255>> \o Rep(255, 0)
               \o <<43, 255>> \o Rep(255, 0) \o <<43, 255>> \o Rep(255, 0)
               \o <<43, 200>> \o Rep(200, 0) \o <<60, 9>>,
    dhcpCookie \o <<43, 255>> \o Rep(255, 0) \o <<43, 255>> \o Rep(255, 0)
               \o <<43, 255>> \o Rep(255, 0) \o <<43, 255>> \o Rep(255, 0)
               \o <<43, 201>> \o Rep(201, 0) \o <<60>> }

DataInputs ==
  {Datagram(dhcpMaxPacketSize, ReplyHeader, o) : o \in OptionBytesInputs}
   \cup {Datagram(n, ReplyHeader, dhcpCookie \o <<53, 1, 2, 255>>) :
           n \in {0, dhcpFixedNonUDP - 1, dhcpFixedNonUDP,
                  dhcpFixedNonUDP + bootpOptionsLen, dhcpMaxPacketSize + 1}}

\* ------------------------------------------------------------------- state
VARIABLES
  hdr,      \* the fixed fields of the packet p, as their 236 wire bytes
  Options,  \* p.Options
  st,       \* "running", or "panicked" once a call has panicked
  op,       \* the last call: "new", "SetOptions", "GetOptions", "toBytes",
            \* "parsePacket" or "q.SetOptions"
  writes,   \* the number of calls so far that filled p.Options
  wrote,    \* the call that filled p.Options last: "new", "SetOptions", "parsePacket"
  opts,     \* the mapping of the last p.SetOptions call
  order,    \* the order in which that call ranged over the mapping
  err,      \* what the last SetOptions or parsePacket call on p returned
  got,      \* the mapping returned by the last p.GetOptions call (views of p.Options)
  wire,     \* the bytes returned by the last p.toBytes call
  q,        \* the Options of a second, fresh packet q
  qerr,     \* what q.SetOptions returned
  data      \* the bytes handed to the last parsePacket call

pvars == <<hdr, Options, st, op, writes, wrote, opts, order, err, got, wire, q, qerr, data>>

VARIABLES
  ep,        \* the platform's networking state: WSAStartup / WSACleanup and
             \* socket / closesocket calls that succeeded, and the open handles
  conns,     \* the UDPConns that ListenUDP returned, each with the number of
             \* Close calls made on it
  listens,   \* the number of ListenUDP calls made directly by the caller
  caller,    \* the Client as the caller built it
  client,    \* the Client during Discover (init and Discover change it in place)
  pc,        \* the position of the Discover call
  ret,       \* what Discover returned
  ln,        \* Discover's endpoint
  nsent,     \* Discover's variable n of line 183, the count WriteToUDP returned
  tries,     \* Discover's loop counter, a uint8
  reads,     \* the number of ReadFromUDP calls Discover made
  responses, \* Discover's slice of parsed replies
  sent,      \* the datagrams Discover handed to WriteToUDP
  arrived,   \* the datagrams the reads with n > 0 were reported for
  silent     \* whether the network stays silent after the send

evars == <<ep, conns, listens>>

dvars == <<caller, client, pc, ret, ln, nsent, tries, reads, responses, sent, arrived, silent>>

\* No platform initialisation and no socket yet.
NoEndpoints ==
  [startups |-> 0, cleanups |-> 0, opened |-> 0, closed |-> 0, open |-> {}]

\* (*UDPConn)(nil)
NilConn == [nil |-> TRUE, fd |-> 0]

\* Client{}: every field unset.
ZeroClient ==
  [Interface       |-> [nil |-> TRUE, HardwareAddr |-> <<>>],
   Options         |-> [nil |-> TRUE, m |-> <<>>],
   NoAutoClientID  |-> FALSE,
   NoAutoHostname  |-> FALSE,
   MaxReadRetries  |-> 0,
   Timeout         |-> 0]

NoReturn == [kind |-> "none", err |-> "nil", packets |-> <<>>]

\* No ListenUDP call was made yet.
EndpointIdle ==
  /\ ep = NoEndpoints
  /\ conns = <<>>
  /\ listens = 0

\* No Discover call was made yet.
ClientIdle ==
  /\ caller = ZeroClient
  /\ client = ZeroClient
  /\ pc = "idle"
  /\ ret = NoReturn
  /\ ln = NilConn
  /\ nsent = 0
  /\ tries = 0
  /\ reads = 0
  /\ responses = <<>>
  /\ sent = <<>>
  /\ arrived = <<>>
  /\ silent = FALSE


ZeroOptions == <<>>

\* p := &Packet{}
PacketIdle ==
  /\ hdr = [i \in 1..dhcpFixedNonUDP |-> 0]
  /\ Options = ZeroOptions
  /\ st = "running"
  /\ op = "new"
  /\ writes = 0
  /\ wrote = "new"
  /\ opts = MapOf({})
  /\ order = <<>>
  /\ err = "none"
  /\ got = NoOptions
  /\ wire = <<>>
  /\ q = ZeroOptions
  /\ qerr = "none"
  /\ data = <<>>

Init ==
  /\ PacketIdle
  /\ EndpointIdle
  /\ ClientIdle

\* GetOptions, toBytes and q.SetOptions leave p as it is and a fill resets
\* every result, so a fill after them leads to the state the same fill leads
\* to before them: fills are taken only at the start and after a fill.
FillCalls == {"new", "SetOptions", "parsePacket"}

\* err = p.SetOptions(o)
DoSetOptions ==
  /\ st = "running"
  /\ op \in FillCalls
  /\ writes < MaxWrites
  /\ \E o \in (IF writes = 0 THEN OptsInputs ELSE ReuseOpts) :
       \E ord \in Orders(DOMAIN o) :
         \E r \in {SetOptions(Options, o, ord)} :
             /\ Options' = r.Options
             /\ err' = r.err
             /\ st' = IF r.err = "panic" THEN "panicked" ELSE "running"
             /\ opts' = o
             /\ order' = ord
  /\ op' = "SetOptions"
  /\ wrote' = "SetOptions"
  /\ writes' = writes + 1
  /\ got' = NoOptions
  /\ wire' = <<>>
  /\ q' = ZeroOptions
  /\ qerr' = "none"
  /\ UNCHANGED <<hdr, data>>
  /\ UNCHANGED <<evars, dvars>>

\* p, err = parsePacket(data).  parsePacket builds the packet it returns from
\* data alone, so it is taken from the initial state only; a failed parse
\* returns no packet and p stays as it was.
DoParsePacket ==
  /\ st = "running"
  /\ op = "new"
  /\ writes < MaxWrites
  /\ \E d \in DataInputs :
       \E r \in {parsePacket(d)} :
           /\ data' = d
           /\ err' = r.err
           /\ IF r.err = "nil"
              THEN /\ hdr' = r.hdr
                   /\ Options' = r.Options
                   /\ wrote' = "parsePacket"
                   /\ writes' = writes + 1
                   /\ opts' = MapOf({})
                   /\ order' = <<>>
              ELSE UNCHANGED <<hdr, Options, wrote, writes, opts, order>>
  /\ op' = "parsePacket"
  /\ got' = NoOptions
  /\ wire' = <<>>
  /\ q' = ZeroOptions
  /\ qerr' = "none"
  /\ UNCHANGED st
  /\ UNCHANGED <<evars, dvars>>

\* m := p.GetOptions()
DoGetOptions ==
  /\ st = "running"
  /\ \E r \in {GetOptions(Options)} :
         /\ got' = IF r.res = "ok" THEN r.opts ELSE NoOptions
         /\ st' = IF r.res = "ok" THEN "running" ELSE "panicked"
  /\ op' = "GetOptions"
  /\ wire' = <<>>
  /\ q' = ZeroOptions
  /\ qerr' = "none"
  /\ UNCHANGED <<hdr, Options, writes, wrote, opts, order, err, data>>
  /\ UNCHANGED <<evars, dvars>>

\* bytes, _ := p.toBytes()
DoToBytes ==
  /\ st = "running"
  /\ \E bufcap \in BufferCaps :
       \E r \in {toBytes(hdr, Options, bufcap)} :
           /\ wire' = r.bytes
           /\ st' = IF r.res = "ok" THEN "running" ELSE "panicked"
  /\ op' = "toBytes"
  /\ got' = NoOptions
  /\ q' = ZeroOptions
  /\ qerr' = "none"
  /\ UNCHANGED <<hdr, Options, writes, wrote, opts, order, err, data>>
  /\ UNCHANGED <<evars, dvars>>

\* q := &Packet{}; qerr = q.SetOptions(m), for the m that p.GetOptions has
\* just returned
DoSetOptionsQ ==
  /\ st = "running"
  /\ op = "GetOptions"
  /\ Cardinality(DOMAIN got) <= MaxReOpts
  /\ \E ord \in Orders(DOMAIN got), m \in {AsOptions(Options, got)} :
       \E r \in {SetOptions(ZeroOptions, m, ord)} :
           /\ q' = r.Options
           /\ qerr' = r.err
           /\ st' = IF r.err = "panic" THEN "panicked" ELSE "running"
  /\ op' = "q.SetOptions"
  /\ wire' = <<>>
  /\ UNCHANGED <<hdr, Options, writes, wrote, opts, order, err, got, data>>
  /\ UNCHANGED <<evars, dvars>>

\* m := p.GetOptions(); err = p.SetOptions(o): the caller still holds m, whose
\* values are slices of p.Options, when p is encoded again.
DoSetOptionsHeld ==
  /\ st = "running"
  /\ op = "GetOptions"
  /\ writes < MaxWrites
  /\ \E o \in ReuseOpts :
       \E ord \in Orders(DOMAIN o) :
         \E r \in {SetOptions(Options, o, ord)} :
             /\ Options' = r.Options
             /\ err' = r.err
             /\ st' = IF r.err = "panic" THEN "panicked" ELSE "running"
             /\ opts' = o
             /\ order' = ord
  /\ op' = "SetOptions"
  /\ wrote' = "SetOptions"
  /\ writes' = writes + 1
  /\ wire' = <<>>
  /\ q' = ZeroOptions
  /\ qerr' = "none"
  /\ UNCHANGED <<hdr, got, data>>
  /\ UNCHANGED <<evars, dvars>>

Next ==
  \/ DoSetOptions
  \/ DoSetOptionsHeld
  \/ DoParsePacket
  \/ DoGetOptions
  \/ DoToBytes
  \/ DoSetOptionsQ

vars == <<pvars, evars, dvars>>

Spec == Init /\ [][Next]_vars

\* ============================================================== endpoints
\* The largest number of ListenUDP calls the caller makes in one run.
MaxListens == 2
\* The largest number of Close calls the caller makes on one UDPConn.
MaxCloses == 2

\* The handle values syscall.Socket can return for a new socket.  A value is
\* free again once its socket is closed.
Handles == {1, 2}

\* The fd syscall.Socket returns with its error.
InvalidHandle == -1

\* The points at which ListenUDP can fail, and "none".
ListenFailures == {"WSAStartup", "Socket", "SO_REUSEADDR", "SO_BROADCAST", "Bind", "none"}

\* syscall.Closesocket(fd): it closes an open socket unless the platform
\* reports a failure (closeFails), and fails for a value that is no socket.
Closesocket(e, fd, closeFails) ==
  IF fd \in e.open /\ ~closeFails
  THEN [ep |-> [e EXCEPT !.open = @ \ {fd}, !.closed = @ + 1], err |-> "nil"]
  ELSE [ep |-> e, err |-> "Closesocket"]

\* syscall.WSACleanup(): it undoes one WSAStartup and fails when none is left.
WSACleanup(e) ==
  IF e.startups > e.cleanups
  THEN [ep |-> [e EXCEPT !.cleanups = @ + 1], err |-> "nil"]
  ELSE [ep |-> e, err |-> "WSACleanup"]

\* func (c *UDPConn) Close() error
Close(e, fd, closeFails) ==
  IF fd # 0
  THEN CHOOSE r \in
         { IF cs.err # "nil" THEN cs ELSE WSACleanup(cs.ep)
           : cs \in {Closesocket(e, fd, closeFails)} } : TRUE
  ELSE [ep |-> e, err |-> "nil"]

\* func ListenUDP(network, laddr, lif) (*UDPConn, error), when the platform
\* makes it fail at failAt, hands out the handle h for the socket and answers
\* the Closesocket of a failure path with closeFails.
ListenUDP(e, failAt, h, closeFails) ==
  IF failAt = "WSAStartup"
  THEN [ep |-> e, conn |-> NilConn, err |-> failAt]
  ELSE CHOOSE r \in
         { IF failAt = "Socket"
           THEN [ep |-> Close(s, InvalidHandle, closeFails).ep, conn |-> NilConn, err |-> failAt]
           ELSE CHOOSE q2 \in
                  { IF failAt = "none"
                    THEN [ep |-> o, conn |-> [nil |-> FALSE, fd |-> h], err |-> "nil"]
                    ELSE [ep |-> Close(o, h, closeFails).ep, conn |-> NilConn, err |-> failAt]
                    : o \in {[s EXCEPT !.open = @ \cup {h}, !.opened = @ + 1]} } : TRUE
           : s \in {[e EXCEPT !.startups = @ + 1]} } : TRUE

\* ln, err := ifnet.ListenUDP(...), called by a program that uses the
\* endpoints directly
DoListenUDP ==
  /\ listens < MaxListens
  /\ \E failAt \in ListenFailures, h \in Handles \ ep.open, closeFails \in BOOLEAN :
       \E r \in {ListenUDP(ep, failAt, h, closeFails)} :
         /\ ep' = r.ep
         /\ conns' = IF r.err = "nil"
                     THEN Append(conns, [fd |-> r.conn.fd, closes |-> 0])
                     ELSE conns
  /\ listens' = listens + 1
  /\ UNCHANGED <<pvars, dvars>>

\* err := ln.Close(), on any UDPConn ListenUDP returned
DoClose ==
  /\ \E i \in DOMAIN conns, closeFails \in BOOLEAN :
       /\ conns[i].closes < MaxCloses
       /\ \E r \in {Close(ep, conns[i].fd, closeFails)} :
            ep' = r.ep
       /\ conns' = [conns EXCEPT ![i].closes = @ + 1]
  /\ UNCHANGED listens
  /\ UNCHANGED <<pvars, dvars>>

UNext ==
  \/ DoListenUDP
  \/ DoClose

USpec == Init /\ [][UNext]_vars

\* ================================================================ Client
\* The largest MaxReadRetries tried besides 255, the largest uint8.
MaxRetries == 2

OpRequest == 1
flagBroadcast == 32768

\* A nil interface{}: what a map lookup gives for a key the map has not.
NilValue == Val("nil", <<>>)

\* map[uint8]interface{}(nil) and a map with the entries m.
NilMap == [nil |-> TRUE, m |-> <<>>]

MapWith(m) == [nil |-> FALSE, m |-> m]

\* c.Options[code]: reading a nil map gives the zero value.
Lookup(o, code) ==
  IF ~o.nil /\ code \in DOMAIN o.m THEN o.m[code] ELSE NilValue

\* c.Options[code] = val: "assignment to entry in nil map" panics.
Assign(o, code, val) ==
  IF o.nil
  THEN [res |-> "panic", Options |-> o]
  ELSE [res |-> "ok",
        Options |-> MapWith([x \in DOMAIN o.m \cup {code} |->
                               IF x = code THEN val ELSE o.m[x]])]

\* []byte{HardwareTypeEthernet, 0, 0, 0, 0, 0, 0} after
\* copy(c.Options[OptionClientID].([]byte)[1:], c.Interface.HardwareAddr)
AutoClientID(mac) ==
  <<HardwareTypeEthernet>> \o [i \in 1..6 |-> IF i <= Len(mac) THEN mac[i] ELSE 0]

\* init with the test for a ClientID of the caller's own left out: the
\* automatic ClientID is stored whenever NoAutoClientID is false.
initOverwriting(cl, hostname) ==
  IF cl.Interface.nil
  THEN [res |-> "Interface not set", Options |-> cl.Options]
  ELSE CHOOSE r \in
    { IF a.res = "panic"
      THEN a
      ELSE IF Lookup(a.Options, OptionHostname) = NilValue /\ ~cl.NoAutoHostname
      THEN CHOOSE r2 \in
             { IF b.res = "panic" THEN b ELSE [res |-> "nil", Options |-> b.Options]
               : b \in {Assign(a.Options, OptionHostname, Val("string", hostname))} } : TRUE
      ELSE [res |-> "nil", Options |-> a.Options]
      : a \in { IF ~cl.NoAutoClientID
                THEN Assign(cl.Options, OptionClientID,
                            Val("[]byte", AutoClientID(cl.Interface.HardwareAddr)))
                ELSE [res |-> "ok", Options |-> cl.Options] } } : TRUE

\* func (c *Client) init() error, on a machine whose os.Hostname() gives
\* hostname ("" with its error, which init drops): what it returns ("nil",
\* "Interface not set") or "panic", and the Options it leaves in c.
init(cl, hostname) ==
  IF cl.Interface.nil
  THEN [res |-> "Interface not set", Options |-> cl.Options]
  ELSE CHOOSE r \in
    { IF a.res = "panic"
      THEN a
      ELSE IF Lookup(a.Options, OptionHostname) = NilValue /\ ~cl.NoAutoHostname
      THEN CHOOSE r2 \in
             { IF b.res = "panic" THEN b ELSE [res |-> "nil", Options |-> b.Options]
               : b \in {Assign(a.Options, OptionHostname, Val("string", hostname))} } : TRUE
      ELSE [res |-> "nil", Options |-> a.Options]
      : a \in { IF Lookup(cl.Options, OptionClientID) = NilValue /\ ~cl.NoAutoClientID
                THEN Assign(cl.Options, OptionClientID,
                            Val("[]byte", AutoClientID(cl.Interface.HardwareAddr)))
                ELSE [res |-> "ok", Options |-> cl.Options] } } : TRUE

\* p := &Packet{Operation: OpRequest, ...} and the copy into
\* p.ClientHardwareAddress: the 236 bytes of the fixed fields as binary.Write
\* lays them out.
DiscoverHeader(mac, xid) ==
  <<OpRequest, HardwareTypeEthernet, Len(mac) % 256, 0>> \o PutUint32(xid)
    \o <<0, 0>> \o PutUint16(flagBroadcast) \o Rep(16, 0)
    \o [i \in 1..16 |-> IF i <= Len(mac) THEN mac[i] ELSE 0]
    \o Rep(64 + 128, 0)

\* ----------------------------------------------------------------- inputs
MAC == <<2, 0, 0, 0, 0, 1>>

\* The values uint32(xid.Uint64()) that are tried.
Xids == {305419896}

\* What os.Hostname() gives: "" with an error, or the machine's name.
Hostnames == {<<>>, <<112, 99>>}

AClient(ifnil, o, noid, nohost, retries, timeout) ==
  [Interface       |-> [nil |-> ifnil, HardwareAddr |-> IF ifnil THEN <<>> ELSE MAC],
   Options         |-> o,
   NoAutoClientID  |-> noid,
   NoAutoHostname  |-> nohost,
   MaxReadRetries  |-> retries,
   Timeout         |-> timeout]

\* The Options a caller sets: none, an empty map, and maps with a parameter
\* list, with a ClientID or Hostname of its own, with a nil ClientID, with a
\* MessageType of its own, and with a value SetOptions rejects.
ClientOptions ==
  { NilMap,
    MapWith(MapOf({})),
    MapWith(MapOf({Entry(OptionParameterList, Val("[]byte", <<1, 3, 6>>))})),
    MapWith(MapOf({Entry(OptionClientID, Val("[]byte", <<HardwareTypeEthernet, 9, 9, 9, 9, 9, 9>>))})),
    MapWith(MapOf({Entry(OptionClientID, NilValue)})),
    MapWith(MapOf({Entry(OptionHostname, Val("string", <<104, 111, 115, 116>>))})),
    MapWith(MapOf({Entry(OptionMessageType, Val("uint8", <<3>>))})),
    MapWith(MapOf({Entry(OptionRouters,
                         Val("[]uint32", <<16843009, 33686018, 50529027, 67372036, 84215045>>))})) }

\* The Clients Discover is called on: every Options with every setting of the
\* two flags, every retry count with and without a timeout, and Clients
\* without an Interface.
ClientInputs ==
  {AClient(FALSE, o, noid, nohost, 0, 0) :
     o \in ClientOptions, noid \in BOOLEAN, nohost \in BOOLEAN}
   \cup {AClient(FALSE, MapWith(MapOf({})), TRUE, TRUE, r, t) :
           r \in (0..MaxRetries) \cup {255}, t \in {0, 5}}
   \cup {AClient(TRUE, o, FALSE, FALSE, 0, 0) : o \in {NilMap, MapWith(MapOf({}))}}

\* The datagrams that arrive on the endpoint: an empty one, a reply of the
\* minimal length, a reply that fills the buffer, and one that is longer.
ReplyInputs ==
  {Datagram(k, ReplyHeader, dhcpCookie \o <<53, 1, 2, 54, 4, 10, 0, 0, 1, 255>>) :
     k \in {0, dhcpFixedNonUDP + bootpOptionsLen, dhcpMaxPacketSize, dhcpMaxPacketSize + 1}}

\* ---------------------------------------------------- UDPConn.ReadFromUDP
\* bufs := make([]syscall.WSABuf, 1): the descriptor handed to WSARecvFrom is
\* never pointed at b, so its Len is the zero value.
WSABufLen == 0

\* copy(b, src)
Copy(b, src) ==
  IF Len(src) >= Len(b) THEN SubSeq(src, 1, Len(b))
  ELSE src \o SubSeq(b, Len(src) + 1, Len(b))

\* func (c *UDPConn) ReadFromUDP(b []byte) (int, *net.UDPAddr, error), when
\* WSARecvFrom fails (recvFails) or reports the datagram d: the count and
\* error returned and the bytes b holds afterwards.
ReadFromUDP(b, d, recvFails) ==
  IF recvFails
  THEN [n |-> 0, err |-> "WSARecvFrom", b |-> b]
  ELSE IF Len(b) < Len(d)
  THEN [n |-> 0, err |-> "buffer too small", b |-> b]
  ELSE [n |-> Len(d), err |-> "nil", b |-> Copy(b, SubSeq(d, 1, WSABufLen))]

\* ------------------------------------------------------- Client.Discover
Returns(kind, e, packets) == [kind |-> kind, err |-> e, packets |-> packets]

\* The position after a step whose result is res.
After(res, next) ==
  IF res = "panic" THEN "panicked" ELSE IF res \in {"nil", "ok"} THEN next ELSE "done"

\* What Discover has returned after a step whose result is res, which it
\* wraps as "<step>: <res>".
Outcome(res, step) ==
  IF res = "panic" THEN Returns("panic", "panic", <<>>)
  ELSE IF res \in {"nil", "ok"} THEN NoReturn
  ELSE Returns("error", step, <<>>)

\* The parts of the packet state a Discover call does not use.
pframe == <<st, op, writes, wrote, got, q, qerr>>

\* responses, err := c.Discover(): lines 140-142, c.init()
DoDiscover ==
  /\ pc = "idle"
  /\ \E cl \in ClientInputs, hostname \in Hostnames :
       \E r \in {init(cl, hostname)} :
         /\ caller' = cl
         /\ client' = [cl EXCEPT !.Options = r.Options]
         /\ pc' = After(r.res, "composing")
         /\ ret' = Outcome(r.res, "Client.init")
  /\ UNCHANGED <<ln, nsent, tries, reads, responses, sent, arrived, silent>>
  /\ UNCHANGED <<hdr, Options, opts, order, err, wire, data, pframe, evars>>

\* Lines 144-158: the transaction ID, the Packet, the MessageType entry and
\* p.SetOptions(c.Options), whose result is dropped.
DoCompose ==
  /\ pc = "composing"
  /\ \E randFails \in BOOLEAN, xid \in Xids :
       IF randFails
       THEN /\ pc' = "done"
            /\ ret' = Returns("error", "rand.Int", <<>>)
            /\ UNCHANGED <<client, hdr, Options, opts, order, err>>
       ELSE \E a \in {Assign(client.Options, OptionMessageType,
                             Val("uint8", <<MessageTypeDiscover>>))} :
              /\ hdr' = DiscoverHeader(client.Interface.HardwareAddr, xid)
              /\ IF a.res = "panic"
                 THEN /\ pc' = "panicked"
                      /\ ret' = Outcome("panic", "")
                      /\ UNCHANGED <<client, Options, opts, order, err>>
                 ELSE \E ord \in Orders(DOMAIN a.Options.m) :
                        \E r \in {SetOptions(ZeroOptions, a.Options.m, ord)} :
                          /\ client' = [client EXCEPT !.Options = a.Options]
                          /\ Options' = r.Options
                          /\ err' = r.err
                          /\ opts' = a.Options.m
                          /\ order' = ord
                          /\ pc' = IF r.err = "panic" THEN "panicked" ELSE "listening"
                          /\ ret' = IF r.err = "panic" THEN Outcome("panic", "") ELSE NoReturn
  /\ UNCHANGED <<caller, ln, nsent, tries, reads, responses, sent, arrived, silent>>
  /\ UNCHANGED <<wire, data, pframe, evars>>

\* Lines 160-173: findSourceIPv4 and ifnet.ListenUDP
DoListen ==
  /\ pc = "listening"
  /\ \E noSource \in BOOLEAN :
       IF noSource
       THEN /\ pc' = "done"
            /\ ret' = Returns("error", "findSourceIPv4", <<>>)
            /\ UNCHANGED <<ln, ep>>
       ELSE \E failAt \in ListenFailures, h \in Handles \ ep.open, closeFails \in BOOLEAN :
              \E r \in {ListenUDP(ep, failAt, h, closeFails)} :
                /\ ep' = r.ep
                /\ ln' = r.conn
                /\ pc' = After(r.err, "sending")
                /\ ret' = Outcome(r.err, "ifnet.ListenUDP")
  /\ UNCHANGED <<caller, client, nsent, tries, reads, responses, sent, arrived, silent>>
  /\ UNCHANGED <<hdr, Options, opts, order, err, wire, data, pframe, conns, listens>>

\* Lines 175-193: p.toBytes(), ln.WriteToUDP(bytes, ...), and the receive
\* buffer and result slice.  From the send on the network is silent or not.
DoSend ==
  /\ pc = "sending"
  /\ \E bufcap \in BufferCaps, sendFails \in BOOLEAN, sil \in BOOLEAN :
       \E t \in {toBytes(hdr, Options, bufcap)} :
         IF t.res = "panic"
         THEN /\ pc' = "panicked"
              /\ ret' = Outcome("panic", "")
              /\ UNCHANGED <<wire, nsent, sent, data, silent>>
         ELSE /\ wire' = t.bytes
              /\ IF sendFails
                 THEN /\ pc' = "done"
                      /\ ret' = Returns("error", "ifnet.UDPConn.WriteToUDP", <<>>)
                      /\ UNCHANGED <<nsent, sent, data, silent>>
                 ELSE /\ nsent' = Len(t.bytes)
                      /\ sent' = Append(sent, t.bytes)
                      /\ data' = Rep(dhcpMaxPacketSize, 0)
                      /\ silent' = sil
                      /\ pc' = "loop"
                      /\ ret' = NoReturn
  /\ UNCHANGED <<caller, client, ln, tries, reads, responses, arrived>>
  /\ UNCHANGED <<hdr, Options, opts, order, err, pframe, evars>>

\* Line 195, tries < 1+c.MaxReadRetries in uint8 arithmetic, then lines
\* 196-201 and the call of ln.ReadFromUDP(data), or line 222.  The n of the
\* clearing loop is the n of line 183: the n of line 204 is a new variable
\* of the loop body.
DoLoop ==
  /\ pc = "loop"
  /\ IF tries < (1 + client.MaxReadRetries) % 256
     THEN IF tries > 0 /\ nsent > Len(data)
          THEN /\ pc' = "panicked"
               /\ ret' = Outcome("panic", "")
               /\ UNCHANGED <<data, reads>>
          ELSE /\ data' = IF tries > 0 THEN Copy(data, Rep(nsent, 0)) ELSE data
               /\ reads' = reads + 1
               /\ pc' = "reading"
               /\ ret' = NoReturn
     ELSE /\ pc' = "done"
          /\ ret' = Returns("ok", "nil", responses)
          /\ UNCHANGED <<data, reads>>
  /\ UNCHANGED <<caller, client, ln, nsent, tries, responses, sent, arrived, silent>>
  /\ UNCHANGED <<hdr, Options, opts, order, err, wire, pframe, evars>>

\* Lines 204-219 and tries++: ln.ReadFromUDP(data) returns, for a datagram
\* that arrived or with an error of WSARecvFrom.  No deadline is set on the
\* socket, so on a silent network the call does not return.
DoReadFromUDP ==
  /\ pc = "reading"
  /\ ~silent
  /\ \E d \in ReplyInputs, recvFails \in BOOLEAN :
       \E r \in {ReadFromUDP(data, d, recvFails)} :
         IF r.err # "nil"
         THEN /\ pc' = "done"
              /\ ret' = Returns("error", "ifnet.UDPConn.ReadFromUDP", <<>>)
              /\ UNCHANGED <<data, arrived, responses, tries>>
         ELSE IF r.n = 0
         THEN /\ pc' = "loop"
              /\ tries' = (tries + 1) % 256
              /\ UNCHANGED <<data, arrived, responses, ret>>
         ELSE \E p \in {parsePacket(r.b)} :
                /\ data' = r.b
                /\ arrived' = Append(arrived, d)
                /\ IF p.err # "nil"
                   THEN /\ pc' = "done"
                        /\ ret' = Returns("error", "parsePacket", <<>>)
                        /\ UNCHANGED <<responses, tries>>
                   ELSE /\ responses' = Append(responses, [hdr |-> p.hdr, Options |-> p.Options])
                        /\ tries' = (tries + 1) % 256
                        /\ pc' = "loop"
                        /\ UNCHANGED ret
  /\ UNCHANGED <<caller, client, ln, nsent, reads, sent, silent>>
  /\ UNCHANGED <<hdr, Options, opts, order, err, wire, pframe, evars>>

DNext ==
  \/ DoDiscover
  \/ DoCompose
  \/ DoListen
  \/ DoSend
  \/ DoLoop
  \/ DoReadFromUDP

DSpec == Init /\ [][DNext]_vars

\* ------------------------------------------------------------- properties
HasCookie(b) == \A i \in 0..(Len(dhcpCookie) - 1) : At(b, i) = dhcpCookie[i + 1]

\* The index in p.Options of the code byte of the k-th entry of the last
\* SetOptions call (for k = Len(order) + 1: the index of OptionEnd).
PosOf(k) == 4 + Len(EncodeUpTo(<<>>, opts, order, 1, k - 1).out)

\* The number of value bytes the k-th entry wrote after its length byte.
NumValueBytes(k) == PosOf(k + 1) - PosOf(k) - 2

\* The byte values of a mapping of views of the array b.
ValuesOf(b, m) == [c \in DOMAIN m |-> ViewBytes(b, m[c])]

\* C1: round-trip fixed point.  When SetOptions(opts) succeeded on p and
\* m = p.GetOptions(), SetOptions(m) on a fresh packet succeeds and writes
\* the same options bytes as SetOptions(opts) did.
C1_RoundTripFixedPoint ==
  (op = "q.SetOptions" /\ wrote = "SetOptions" /\ err = "nil")
    => (qerr = "nil" /\ q = Options)

\* C2: length bounds.  After a successful SetOptions every record written has
\* a length byte equal to the number of value bytes written after it, and
\* that number is at most 255.
C2_LengthBounds ==
  (op = "SetOptions" /\ err = "nil")
    => \A k \in 1..Len(order) :
         NumValueBytes(k) >= 0
           => /\ At(Options, PosOf(k) + 1) = NumValueBytes(k)
              /\ NumValueBytes(k) <= 255

\* C3: the decoder recovers what the encoder wrote.  After a successful
\* SetOptions(opts), GetOptions returns a mapping whose codes are the codes of
\* opts (without an empty HomeAgentAddrs) and whose value for each code is
\* the value bytes written for that code.
C3_DecodeRecovers ==
  (op = "GetOptions" /\ wrote = "SetOptions" /\ err = "nil")
    => /\ st = "running"
       /\ DOMAIN got = {c \in DOMAIN opts : EncodeValue(c, opts[c]).res # "continue"}
       /\ \A c \in DOMAIN got :
            ViewBytes(Options, got[c]) = EncodeValue(c, opts[c]).data

\* The bytes of the array b from index idx on, without the OptionPad bytes
\* that stand where an option code is expected before OptionEnd.
RECURSIVE StripPadsFrom(_, _)
StripPadsFrom(b, idx) ==
  IF idx >= Len(b) THEN <<>>
  ELSE IF At(b, idx) = OptionPad THEN StripPadsFrom(b, idx + 1)
  ELSE IF At(b, idx) = OptionEnd \/ idx + 2 + At(b, idx + 1) >= Len(b)
       THEN SubSeq(b, idx + 1, Len(b))
       ELSE SubSeq(b, idx + 1, idx + 2 + At(b, idx + 1))
              \o StripPadsFrom(b, idx + 2 + At(b, idx + 1))

StripPads(b) == ArrayOf(dhcpCookie \o StripPadsFrom(b, Len(dhcpCookie)))

\* C4: pad bytes are skipped on decode.  For an options region that starts
\* with the cookie, GetOptions returns the mapping it returns for the region
\* without the OptionPad bytes that stand between its records.
C4_PadsSkipped ==
  (op = "GetOptions" /\ HasCookie(Options) /\ StripPads(Options) # Options)
    => /\ st = "running"
       /\ GetOptions(StripPads(Options)).res = "ok"
       /\ ValuesOf(Options, got)
            = ValuesOf(StripPads(Options), GetOptions(StripPads(Options)).opts)

\* The index of the code byte of the first record the loop of GetOptions
\* meets whose length byte claims more value bytes than the array has left;
\* -1 when there is none.
RECURSIVE TruncatedFrom(_, _, _)
TruncatedFrom(b, idx, end) ==
  IF idx >= end \/ idx + 1 >= dhcpOptionsLenMax THEN -1
  ELSE IF At(b, idx) = OptionEnd THEN -1
  ELSE IF idx + 2 + At(b, idx + 1) > dhcpOptionsLenMax THEN idx
  ELSE TruncatedFrom(b, idx + 2 + At(b, idx + 1), end)

TruncatedAt(b) ==
  IF HasCookie(b) THEN TruncatedFrom(b, Len(dhcpCookie), optionsLen(b)) ELSE -1

\* C5: truncated record on decode.  When GetOptions meets a record whose
\* length byte claims more value bytes than remain in the options region, it
\* returns normally and the mapping holds an empty value for that code.
C5_TruncatedRecord ==
  (op = "GetOptions" /\ TruncatedAt(Options) >= 0)
    => /\ st = "running"
       /\ At(Options, TruncatedAt(Options)) \in DOMAIN got
       /\ got[At(Options, TruncatedAt(Options))].len = 0

\* The representations of HomeAgentAddrs that count as empty.
IsEmptyRepr(val) ==
  \/ val.t = "uint32" /\ val.v[1] = 0
  \/ val.t \in {"[]uint32", "[][4]byte", "[]byte"} /\ Len(val.v) = 0

Without(o, c) == [x \in (DOMAIN o) \ {c} |-> o[x]]

WithoutCode(ord, c) == SelectSeq(ord, LAMBDA x : x # c)

\* C6: an empty HomeAgentAddrs is silently omitted.  When opts maps
\* HomeAgentAddrs to an empty representation, SetOptions succeeds and leaves
\* exactly the options bytes it leaves for opts without that entry.
C6_EmptyHomeAgentOmitted ==
  (op = "SetOptions" /\ OptionHomeAgentAddrs \in DOMAIN opts
     /\ IsEmptyRepr(opts[OptionHomeAgentAddrs])
     /\ SetOptions(ZeroOptions, Without(opts, OptionHomeAgentAddrs),
                   WithoutCode(order, OptionHomeAgentAddrs)).err = "nil")
    => /\ err = "nil"
       /\ Options = SetOptions(ZeroOptions, Without(opts, OptionHomeAgentAddrs),
                               WithoutCode(order, OptionHomeAgentAddrs)).Options

\* The number of IPv4 addresses a value of an address-list option carries.
AddrCount(val) ==
  CASE val.t = "uint32" -> 1
    [] val.t = "[]uint32" -> Len(val.v)
    [] val.t \in {"[][4]byte", "[]byte"} -> Len(val.v) \div 4
    [] OTHER -> 0

OutOfRange(code, val) ==
  \/ /\ code = OptionMTUPlateauTable
     /\ \/ val.t = "uint16" /\ val.v[1] < 68
        \/ val.t = "[]uint16" /\ \E i \in 1..Len(val.v) : val.v[i] < 68
        \/ val.t = "[2]byte" /\ Uint16At(val.v, 1) < 68
        \/ val.t = "[][2]byte" /\ \E i \in 1..(Len(val.v) \div 2) : Uint16At(val.v, 2 * i - 1) < 68
  \/ code = OptionOverload /\ val.t = "uint8" /\ val.v[1] \notin {1, 2, 3}
  \/ code \in Group9Codes /\ val.t = "uint8" /\ val.v[1] > 1
  \/ code = OptionClientID /\ val.t = "[]byte" /\ Len(val.v) < 2

\* The range loop of the last SetOptions call gets to its k-th entry with
\* room in the array for the entry's code and length bytes.
Reaches(k) ==
  LET w == EncodeUpTo(<<>>, opts, order, 1, k - 1)
  IN  w.res = "ok" /\ 4 + Len(w.out) + 1 < dhcpOptionsLenMax

\* C8: range rejection.  SetOptions never succeeds on a mapping with an
\* MTUPlateauTable value below 68 (single or list element), an Overload value
\* outside {1, 2, 3}, a boolean-group 8-bit integer above 1 or a ClientID
\* shorter than 2 bytes, and it returns the invalid-value error when the loop
\* gets to that entry.
C8_RangeRejection ==
  op = "SetOptions"
    => \A k \in 1..Len(order) :
         OutOfRange(order[k], opts[order[k]])
           => /\ err # "nil"
              /\ Reaches(k) => err = "InvalidValue"

\* C8 witness: a call that wrote an entry and then rejected an out-of-range one.
C8_Witness ==
  /\ op = "SetOptions"
  /\ err = "InvalidValue"
  /\ \E k \in 2..Len(order) : OutOfRange(order[k], opts[order[k]]) /\ Reaches(k)

\* C9: cookie contract.  SetOptions on an empty mapping leaves the options
\* region as 63 82 53 63 FF followed only by zeros, and GetOptions on a
\* region whose first four bytes are not the cookie returns the empty mapping
\* without error.
C9_CookieContract ==
  /\ (op = "SetOptions" /\ DOMAIN opts = {})
       => (err = "nil" /\ Options = dhcpCookie \o <<OptionEnd>>)
  /\ (op = "GetOptions" /\ ~HasCookie(Options))
       => (st = "running" /\ got = NoOptions)

\* C9 witness: SetOptions on an empty mapping, on a packet whose options
\* array held a longer region before.
C9_Witness ==
  /\ op = "SetOptions"
  /\ DOMAIN opts = {}
  /\ writes = 2
  /\ err = "nil"

\* C10: framing length.  For a packet whose options were written by a
\* successful SetOptions, toBytes returns 236 + 64 bytes when options_len <
\* 64 and 236 + options_len bytes otherwise, options_len being one past the
\* index of the OptionEnd that SetOptions wrote; the bytes hold that
\* OptionEnd and every byte before it.
C10_FramingLength ==
  (op = "toBytes" /\ wrote = "SetOptions" /\ err = "nil")
    => /\ st = "running"
       /\ Len(wire) = dhcpFixedNonUDP
                        + (IF PosOf(Len(order) + 1) + 1 < bootpOptionsLen
                           THEN bootpOptionsLen
                           ELSE PosOf(Len(order) + 1) + 1)
       /\ \A i \in 0..PosOf(Len(order) + 1) :
            wire[dhcpFixedNonUDP + i + 1] = At(Options, i)

\* C11: parse length rule.  parsePacket succeeds on every input of at least
\* 236 bytes: the fixed fields are the first 236 bytes, the options region is
\* the bytes after them, and the bytes past the end of the input are zero.  It
\* fails only on an input of fewer than 236 bytes.
C11_ParseLengthRule ==
  op = "parsePacket"
    => IF Len(data) < dhcpFixedNonUDP
       THEN err # "nil"
       ELSE /\ err = "nil"
            /\ hdr = SubSeq(data, 1, dhcpFixedNonUDP)
            /\ \A i \in 0..(dhcpOptionsLenMax - 1) :
                 At(Options, i) = At(data, dhcpFixedNonUDP + i)

\* C20: decoded values are stable.  The mapping GetOptions returned keeps,
\* for every code, the value bytes it had when it was returned, after a later
\* SetOptions call on the same packet.
C20_DecodedValuesStable ==
  [][(op = "GetOptions" /\ op' = "SetOptions")
       => ValuesOf(Options', got') = ValuesOf(Options, got)]_vars

\* The UDPConns on which Close was not called yet.
Unclosed == {i \in DOMAIN conns : conns[i].closes = 0}

\* C19: endpoint release happens exactly once.  Over any sequence of
\* ListenUDP and Close calls, the successful WSAStartup calls that no
\* WSACleanup has matched, and the sockets that are open, are exactly those
\* of the UDPConns that were returned and not closed yet: a failed ListenUDP
\* and a Close leave nothing behind, and a second Close releases nothing
\* twice.
C19_ReleasedExactlyOnce ==
  /\ ep.startups - ep.cleanups = Cardinality(Unclosed)
  /\ ep.opened - ep.closed = Cardinality(Unclosed)
  /\ ep.open = {conns[i].fd : i \in Unclosed}

\* C12: read count.  A Discover call that returns normally (the send
\* succeeded and no read or parse failed) has made exactly
\* 1 + MaxReadRetries reads on the endpoint and returns at most
\* 1 + MaxReadRetries packets, for every MaxReadRetries in 0..255.
C12_ReadCount ==
  (pc = "done" /\ ret.kind = "ok")
    => /\ reads = 1 + caller.MaxReadRetries
       /\ Len(ret.packets) <= 1 + caller.MaxReadRetries

\* C13: an encode failure stops the call.  When p.SetOptions(c.Options)
\* fails with InvalidType or InvalidValue, Discover returns an error and no
\* datagram is sent on the endpoint.
C13_EncodeFailureStops ==
  (pc # "idle" /\ err \in {"InvalidType", "InvalidValue"})
    => /\ sent = <<>>
       /\ pc = "done" => ret.kind = "error"

\* C14: the endpoint is closed on exit.  Whenever Discover has returned after
\* ListenUDP succeeded, on the normal return and on every error return, the
\* socket of its endpoint is closed and its WSAStartup is matched.
C14_ClosedOnExit ==
  (pc = "done" /\ ~ln.nil)
    => /\ ln.fd \notin ep.open
       /\ ep.startups = ep.cleanups

\* Discover has returned the empty list without an error.
ReturnedEmpty == pc = "done" /\ ret = Returns("ok", "nil", <<>>)

\* C15: Discover terminates when the network is silent.  With a Timeout set
\* and any MaxReadRetries, when no datagram arrives after the send the call
\* is never stuck: until it has returned the empty list without an error, it
\* can take a step.
C15_SilentTerminates ==
  (silent /\ caller.Timeout > 0) => (ReturnedEmpty \/ ENABLED DNext)

\* C16: only the interface is required.  A Client with its Interface set and
\* Options nil, with either setting of NoAutoClientID and NoAutoHostname,
\* gets through c.init() and the composition of the DISCOVER without an
\* error of init and without a panic; a Client with no Interface makes
\* Discover return an error with no endpoint opened and no datagram sent.
C16_OnlyInterfaceRequired ==
  /\ (pc # "idle" /\ ~caller.Interface.nil /\ caller.Options.nil)
       => /\ pc # "panicked"
          /\ ret.err # "Client.init"
  /\ (pc # "idle" /\ caller.Interface.nil)
       => /\ pc = "done"
          /\ ret.kind = "error"
          /\ ep = NoEndpoints
          /\ sent = <<>>

\* The mapping m with the entry code -> val added or replaced.
WithEntry(m, code, val) ==
  [x \in DOMAIN m \cup {code} |-> IF x = code THEN val ELSE m[x]]

\* The caller set a value for code: an entry that is not nil.
Supplied(code) == Lookup(caller.Options, code) # NilValue

\* The caller's options with MessageType = Discover, and with the automatic
\* ClientID when the caller supplied none and NoAutoClientID is false.
WithMessageTypeAndClientID ==
  WithEntry(IF ~Supplied(OptionClientID) /\ ~caller.NoAutoClientID
            THEN WithEntry(caller.Options.m, OptionClientID,
                           Val("[]byte", <<HardwareTypeEthernet>> \o caller.Interface.HardwareAddr))
            ELSE caller.Options.m,
            OptionMessageType, Val("uint8", <<MessageTypeDiscover>>))

\* The same with the Hostname h when the caller supplied none and
\* NoAutoHostname is false.
WithHostname(h) ==
  IF ~Supplied(OptionHostname) /\ ~caller.NoAutoHostname
  THEN WithEntry(WithMessageTypeAndClientID, OptionHostname, Val("string", h))
  ELSE WithMessageTypeAndClientID

\* The option bytes of the datagram dg, as an options array.
OptionBytesOf(dg) == ArrayOf(SubSeq(dg, dhcpFixedNonUDP + 1, Len(dg)))

BufferWith(d) == Copy(Rep(dhcpMaxPacketSize, 0), d)

\* The packet that the datagram d alone parses to.
PacketOf(d) ==
  [hdr |-> parsePacket(BufferWith(d)).hdr, Options |-> parsePacket(BufferWith(d)).Options]

\* C18: reply isolation.  Every packet Discover returns is the parse of the
\* one datagram received in that read, with every byte past the datagram's
\* length zero.
C18_ReplyIsolation ==
  (pc = "done" /\ ret.kind = "ok")
    => /\ Len(ret.packets) = Len(arrived)
       /\ \A i \in DOMAIN ret.packets : ret.packets[i] = PacketOf(arrived[i])
====
